---- MODULE Spec2Model ----
(***************************************************************************)
(* Model of the E-Commerce Template API (src/main.py): a FastAPI service   *)
(* over the "product" collection of a document store.                      *)
(*                                                                         *)
(* Representation.                                                         *)
(*  - A Python str whose characters matter (title, description, category,  *)
(*    image, q, an id) is the tuple of its code points; lexicographic      *)
(*    order, lower-casing and hex parsing are computed on the code points. *)
(*    A str the code only passes on or compares whole (an error detail, a  *)
(*    sort keyword, a status text) is a TLA+ string.                       *)
(*  - A Python value is tagged by its type: [t |-> "str", v |-> ...],      *)
(*    "float", "bool", "oid" (bson.ObjectId, 12 bytes), "none" (None) and, *)
(*    in a request body only, "missing" (key absent).                      *)
(*  - A float is the integer number of hundredths (129.99 is 12999).       *)
(*  - A dict is a function on its keys.                                    *)
(***************************************************************************)
EXTENDS Integers, Sequences, FiniteSets, TLC

----------------------------------------------------------------------------
(* Bounds of the model *)

\* successful create_product inserts in one behaviour
MaxCreates == 2
\* collections other than "product" that the store may hold
MaxOtherColls == 11
\* successful create_product inserts while startups run concurrently
MaxConcCreates == 1

----------------------------------------------------------------------------
(* Python values *)

Str(s) == [t |-> "str", v |-> s]
Float(n) == [t |-> "float", v |-> n]
Bool(b) == [t |-> "bool", v |-> b]
Oid(b) == [t |-> "oid", v |-> b]
NoneV == [t |-> "none"]
Missing == [t |-> "missing"]

\* bool(x) of the values the service handles
Truthy(x) ==
  CASE x.t = "none" -> FALSE
    [] x.t = "str" -> Len(x.v) > 0
    [] x.t = "bool" -> x.v
    [] x.t = "float" -> x.v # 0
    [] OTHER -> TRUE

Min(a, b) == IF a <= b THEN a ELSE b

\* s[:n]
Take(s, n) == SubSeq(s, 1, Min(n, Len(s)))

\* str < str: lexicographic by code point
RECURSIVE LexLess(_, _)
LexLess(a, b) ==
  IF Len(b) = 0 THEN FALSE
  ELSE IF Len(a) = 0 THEN TRUE
  ELSE IF a[1] # b[1] THEN a[1] < b[1]
  ELSE LexLess(Tail(a), Tail(b))

----------------------------------------------------------------------------
(* bson.ObjectId *)

IsHexDigit(c) == c \in (48..57) \cup (65..70) \cup (97..102)

HexVal(c) == IF c <= 57 THEN c - 48 ELSE IF c <= 70 THEN c - 55 ELSE c - 87

HexChar(n) == IF n < 10 THEN 48 + n ELSE 87 + n

\* ObjectId(s) of a str raises InvalidId unless s is 24 hex digits
ObjectIdIsValid(s) == Len(s) = 24 /\ \A i \in 1..24 : IsHexDigit(s[i])

\* ObjectId(s): the 12 bytes
ObjectIdFromStr(s) ==
  [i \in 1..12 |-> 16 * HexVal(s[2 * i - 1]) + HexVal(s[2 * i])]

\* str(oid): 24 lower-case hex digits
ObjectIdStr(b) ==
  [i \in 1..24 |->
     IF i % 2 = 1 THEN HexChar(b[(i + 1) \div 2] \div 16)
     ELSE HexChar(b[i \div 2] % 16)]

\* the id the store assigns to the n-th insert: the counter in the last 3 bytes
NewObjectId(n) ==
  [i \in 1..12 |->
     CASE i = 12 -> n % 256
       [] i = 11 -> (n \div 256) % 256
       [] i = 10 -> (n \div 65536) % 256
       [] OTHER -> 0]

\* str(x)
StrOf(x) == IF x.t = "oid" THEN Str(ObjectIdStr(x.v)) ELSE x

----------------------------------------------------------------------------
(* serialize_doc *)

serialize_doc(doc) ==
  IF DOMAIN doc = {} THEN doc
  ELSE
    LET out == IF "_id" \in DOMAIN doc /\ doc["_id"].t # "none"
               THEN [k \in (DOMAIN doc \ {"_id"}) \cup {"id"} |->
                       IF k = "id" THEN StrOf(doc["_id"]) ELSE doc[k]]
               ELSE doc
    IN [k \in DOMAIN out |-> IF out[k].t = "oid" THEN StrOf(out[k]) ELSE out[k]]

----------------------------------------------------------------------------
(* Schemas *)

ProductCreateFields ==
  {"title", "description", "price", "category", "in_stock", "image", "rating"}

ProductOutFields == ProductCreateFields \cup {"id"}

\* ProductCreate: the validated value of each field, or no value ("invalid")
Invalid == [t |-> "invalid"]

RequiredStr(x) == IF x.t = "str" THEN x ELSE Invalid

OptionalStr(x) ==
  CASE x.t = "missing" -> NoneV
    [] x.t = "none" -> NoneV
    [] x.t = "str" -> x
    [] OTHER -> Invalid

\* price: float = Field(..., ge=0)
PriceField(x) == IF x.t = "float" /\ x.v >= 0 THEN x ELSE Invalid

\* in_stock: bool = True
InStockField(x) ==
  CASE x.t = "missing" -> Bool(TRUE)
    [] x.t = "bool" -> x
    [] OTHER -> Invalid

RatingField_default_5(x) ==
  CASE x.t = "missing" -> Float(500)
    [] x.t = "none" -> NoneV
    [] x.t = "float" -> IF x.v >= 0 /\ x.v <= 500 THEN x ELSE Invalid
    [] OTHER -> Invalid

\* rating: Optional[float] = Field(default=4.5, ge=0, le=5)
RatingField(x) ==
  CASE x.t = "missing" -> Float(450)
    [] x.t = "none" -> NoneV
    [] x.t = "float" -> IF x.v >= 0 /\ x.v <= 500 THEN x ELSE Invalid
    [] OTHER -> Invalid

\* ProductCreate(**body).model_dump(), fields that fail validation marked
ProductCreate(body) ==
  [title |-> RequiredStr(body.title),
   description |-> OptionalStr(body.description),
   price |-> PriceField(body.price),
   category |-> RequiredStr(body.category),
   in_stock |-> InStockField(body.in_stock),
   image |-> OptionalStr(body.image),
   rating |-> RatingField(body.rating)]

ProductCreateValid(body) ==
  \A k \in ProductCreateFields : ProductCreate(body)[k] # Invalid

\* response_model=ProductOut: the returned dict validated as a ProductOut, a key
\* it lacks read as absent
ProductOut(d) ==
  LET raw == [k \in ProductOutFields |-> IF k \in DOMAIN d THEN d[k] ELSE Missing]
  IN [k \in ProductOutFields |->
        IF k = "id" THEN RequiredStr(raw[k]) ELSE ProductCreate(raw)[k]]

ProductOutValid(d) == \A k \in ProductOutFields : ProductOut(d)[k] # Invalid

----------------------------------------------------------------------------
(* Seed data: sample_products *)

\* sample_products[1]: "Wireless Headphones", 129.99, "Electronics", rating 4.6
Sample1 ==
  [title |-> Str(
      <<87, 105, 114, 101, 108, 101, 115, 115, 32, 72, 101, 97, 100, 112, 104, 111,
        110, 101, 115>>),
   description |-> Str(
      <<78, 111, 105, 115, 101, 45, 99, 97, 110, 99, 101, 108, 108, 105, 110, 103,
        32, 111, 118, 101, 114, 45, 101, 97, 114, 32, 104, 101, 97, 100, 112, 104,
        111, 110, 101, 115, 32, 119, 105, 116, 104, 32, 51, 48, 104, 32, 98, 97,
        116, 116, 101, 114, 121, 46>>),
   price |-> Float(12999),
   category |-> Str(
      <<69, 108, 101, 99, 116, 114, 111, 110, 105, 99, 115>>),
   in_stock |-> Bool(TRUE),
   image |-> Str(
      <<104, 116, 116, 112, 115, 58, 47, 47, 105, 109, 97, 103, 101, 115, 46, 117,
        110, 115, 112, 108, 97, 115, 104, 46, 99, 111, 109, 47, 112, 104, 111, 116,
        111, 45, 49, 53, 49, 56, 52, 52, 53, 48, 55, 55, 49, 48, 48, 45,
        49, 98, 101, 52, 50, 101, 52, 49, 97, 49, 98, 55, 63, 119, 61, 56,
        48, 48, 38, 113, 61, 56, 48>>),
   rating |-> Float(460)]

\* sample_products[2]: "Smart Watch", 89.0, "Electronics", rating 4.4
Sample2 ==
  [title |-> Str(
      <<83, 109, 97, 114, 116, 32, 87, 97, 116, 99, 104>>),
   description |-> Str(
      <<70, 105, 116, 110, 101, 115, 115, 32, 116, 114, 97, 99, 107, 105, 110, 103,
        44, 32, 104, 101, 97, 114, 116, 45, 114, 97, 116, 101, 32, 109, 111, 110,
        105, 116, 111, 114, 44, 32, 97, 110, 100, 32, 110, 111, 116, 105, 102, 105,
        99, 97, 116, 105, 111, 110, 115, 46>>),
   price |-> Float(8900),
   category |-> Str(
      <<69, 108, 101, 99, 116, 114, 111, 110, 105, 99, 115>>),
   in_stock |-> Bool(TRUE),
   image |-> Str(
      <<104, 116, 116, 112, 115, 58, 47, 47, 105, 109, 97, 103, 101, 115, 46, 117,
        110, 115, 112, 108, 97, 115, 104, 46, 99, 111, 109, 47, 112, 104, 111, 116,
        111, 45, 49, 53, 49, 49, 55, 48, 55, 49, 55, 49, 54, 51, 52, 45,
        53, 102, 56, 57, 55, 102, 102, 48, 50, 97, 97, 57, 63, 119, 61, 56,
        48, 48, 38, 113, 61, 56, 48>>),
   rating |-> Float(440)]

\* sample_products[3]: "Minimalist Sneakers", 59.99, "Fashion", rating 4.2
Sample3 ==
  [title |-> Str(
      <<77, 105, 110, 105, 109, 97, 108, 105, 115, 116, 32, 83, 110, 101, 97, 107,
        101, 114, 115>>),
   description |-> Str(
      <<76, 105, 103, 104, 116, 119, 101, 105, 103, 104, 116, 44, 32, 98, 114, 101,
        97, 116, 104, 97, 98, 108, 101, 32, 101, 118, 101, 114, 121, 100, 97, 121,
        32, 115, 110, 101, 97, 107, 101, 114, 115, 46>>),
   price |-> Float(5999),
   category |-> Str(
      <<70, 97, 115, 104, 105, 111, 110>>),
   in_stock |-> Bool(TRUE),
   image |-> Str(
      <<104, 116, 116, 112, 115, 58, 47, 47, 105, 109, 97, 103, 101, 115, 46, 117,
        110, 115, 112, 108, 97, 115, 104, 46, 99, 111, 109, 47, 112, 104, 111, 116,
        111, 45, 49, 53, 50, 56, 55, 48, 49, 56, 48, 48, 52, 56, 57, 45,
        50, 48, 98, 101, 48, 98, 49, 99, 55, 101, 56, 50, 63, 119, 61, 56,
        48, 48, 38, 113, 61, 56, 48>>),
   rating |-> Float(420)]

\* sample_products[4]: "Ceramic Mug", 14.5, "Home & Kitchen", rating 4.8
Sample4 ==
  [title |-> Str(
      <<67, 101, 114, 97, 109, 105, 99, 32, 77, 117, 103>>),
   description |-> Str(
      <<77, 97, 116, 116, 101, 32, 102, 105, 110, 105, 115, 104, 32, 109, 117, 103,
        32, 102, 111, 114, 32, 121, 111, 117, 114, 32, 100, 97, 105, 108, 121, 32,
        99, 111, 102, 102, 101, 101, 32, 114, 105, 116, 117, 97, 108, 46>>),
   price |-> Float(1450),
   category |-> Str(
      <<72, 111, 109, 101, 32, 38, 32, 75, 105, 116, 99, 104, 101, 110>>),
   in_stock |-> Bool(TRUE),
   image |-> Str(
      <<104, 116, 116, 112, 115, 58, 47, 47, 105, 109, 97, 103, 101, 115, 46, 117,
        110, 115, 112, 108, 97, 115, 104, 46, 99, 111, 109, 47, 112, 104, 111, 116,
        111, 45, 49, 53, 49, 55, 54, 56, 54, 52, 54, 57, 52, 50, 57, 45,
        56, 98, 100, 98, 56, 56, 98, 57, 102, 57, 48, 55, 63, 119, 61, 56,
        48, 48, 38, 113, 61, 56, 48>>),
   rating |-> Float(480)]

\* sample_products[5]: "Standing Desk", 279.0, "Office", rating 4.7
Sample5 ==
  [title |-> Str(
      <<83, 116, 97, 110, 100, 105, 110, 103, 32, 68, 101, 115, 107>>),
   description |-> Str(
      <<65, 100, 106, 117, 115, 116, 97, 98, 108, 101, 32, 104, 101, 105, 103, 104,
        116, 32, 100, 101, 115, 107, 32, 102, 111, 114, 32, 101, 114, 103, 111, 110,
        111, 109, 105, 99, 32, 119, 111, 114, 107, 46>>),
   price |-> Float(27900),
   category |-> Str(
      <<79, 102, 102, 105, 99, 101>>),
   in_stock |-> Bool(TRUE),
   image |-> Str(
      <<104, 116, 116, 112, 115, 58, 47, 47, 105, 109, 97, 103, 101, 115, 46, 117,
        110, 115, 112, 108, 97, 115, 104, 46, 99, 111, 109, 47, 112, 104, 111, 116,
        111, 45, 49, 53, 49, 55, 48, 56, 52, 49, 54, 54, 55, 54, 53, 45,
        55, 102, 55, 53, 97, 57, 57, 54, 54, 97, 99, 101, 63, 119, 61, 56,
        48, 48, 38, 113, 61, 56, 48>>),
   rating |-> Float(470)]

\* sample_products[6]: "Cotton T-Shirt", 19.99, "Fashion", rating 4.1
Sample6 ==
  [title |-> Str(
      <<67, 111, 116, 116, 111, 110, 32, 84, 45, 83, 104, 105, 114, 116>>),
   description |-> Str(
      <<83, 111, 102, 116, 44, 32, 98, 114, 101, 97, 116, 104, 97, 98, 108, 101,
        32, 99, 111, 116, 116, 111, 110, 32, 116, 101, 101, 32, 105, 110, 32, 109,
        117, 108, 116, 105, 112, 108, 101, 32, 99, 111, 108, 111, 114, 115, 46>>),
   price |-> Float(1999),
   category |-> Str(
      <<70, 97, 115, 104, 105, 111, 110>>),
   in_stock |-> Bool(TRUE),
   image |-> Str(
      <<104, 116, 116, 112, 115, 58, 47, 47, 105, 109, 97, 103, 101, 115, 46, 117,
        110, 115, 112, 108, 97, 115, 104, 46, 99, 111, 109, 47, 112, 104, 111, 116,
        111, 45, 49, 53, 50, 48, 57, 55, 53, 57, 49, 54, 48, 57, 48, 45,
        51, 49, 48, 53, 57, 53, 54, 100, 97, 99, 51, 56, 63, 119, 61, 56,
        48, 48, 38, 113, 61, 56, 48>>),
   rating |-> Float(410)]

sample_products == <<Sample1, Sample2, Sample3, Sample4, Sample5, Sample6>>

----------------------------------------------------------------------------
(* The document store, as the handlers use it *)

\* db["product"].count_documents({})
count_documents(coll) == Len(coll)

\* collection.insert_one(data): the stored document, with the id the store assigns
InsertedDoc(data, n) ==
  [k \in DOMAIN data \cup {"_id"} |->
     IF k = "_id" THEN Oid(NewObjectId(n)) ELSE data[k]]

Lower(c) == IF c \in 65..90 THEN c + 32 ELSE c

LowerStr(s) == [i \in 1..Len(s) |-> Lower(s[i])]

\* {"$regex": pattern, "$options": "i"} on a field value; the patterns of the
\* model hold letters only, so the regex is a case-insensitive substring search
RegexMatchI(pattern, x) ==
  /\ x.t = "str"
  /\ \E i \in 0..(Len(x.v) - Len(pattern)) :
       LowerStr(SubSeq(x.v, i + 1, i + Len(pattern))) = LowerStr(pattern)

\* whether a document satisfies a filter document
Matches(doc, filter_doc) ==
  /\ "$or" \in DOMAIN filter_doc =>
       \E j \in 1..Len(filter_doc["$or"]) :
         RegexMatchI(filter_doc["$or"][j].regex, doc[filter_doc["$or"][j].field])
  /\ "category" \in DOMAIN filter_doc => doc["category"] = filter_doc["category"]

\* db["product"].find(filter_doc): the matching documents in natural order
find(coll, filter_doc) == SelectSeq(coll, LAMBDA d : Matches(d, filter_doc))

\* BSON comparison order of the values a sort key holds: null before numbers
BsonLess(a, b) ==
  CASE a.t = "none" -> b.t # "none"
    [] b.t = "none" -> FALSE
    [] OTHER -> a.v < b.v

\* a sorts strictly before b under cursor.sort(key, dir)
SortsBefore(a, b, key, dir) ==
  IF dir = 1 THEN BsonLess(a[key], b[key]) ELSE BsonLess(b[key], a[key])

\* cursor.sort(key, dir): every order the store may return; documents with
\* equal keys come in any order
RECURSIVE SortOrders(_, _, _, _)
SortOrders(docs, S, key, dir) ==
  IF S = {} THEN {<<>>}
  ELSE UNION {
         {<<docs[i]>> \o r : r \in SortOrders(docs, S \ {i}, key, dir)} :
           i \in {j \in S : \A k \in S : ~SortsBefore(docs[k], docs[j], key, dir)}}

sort(docs, key, dir) == SortOrders(docs, 1..Len(docs), key, dir)

\* cursor.limit(n)
limit_cursor(docs, n) == Take(docs, n)

\* db["product"].distinct("category")
distinct(coll, key) == {coll[i][key] : i \in 1..Len(coll)}

\* db["product"].find_one({"_id": oid}); None is the empty dict here
NoDoc == <<>>

find_one(coll, oid) ==
  IF \E i \in 1..Len(coll) : coll[i]["_id"] = Oid(oid)
  THEN coll[CHOOSE i \in 1..Len(coll) :
              /\ coll[i]["_id"] = Oid(oid)
              /\ \A j \in 1..(i - 1) : coll[j]["_id"] # Oid(oid)]
  ELSE NoDoc

\* db.list_collection_names(): "product" exists once it holds a document
list_collection_names(coll, others) ==
  (IF Len(coll) > 0 THEN <<"product">> ELSE <<>>)
    \o [i \in 1..others |-> "collection_" \o ToString(i)]

\* sorted(strs)
RECURSIVE sorted(_)
sorted(S) ==
  IF S = {} THEN <<>>
  ELSE LET m == CHOOSE x \in S : \A y \in S : ~LexLess(y, x)
       IN <<m>> \o sorted(S \ {m})

----------------------------------------------------------------------------
(* State *)

Procs == {1, 2}

VARIABLES
  db,        \* db[p]: process p's store handle, "None" or "Handle"
  product,   \* the documents of db["product"], in insertion order
  inc,       \* the store's id counter
  pc,        \* pc[p]: "off", "start", "seeding", "serving" or "crashed"
  count,     \* count[p]: seed_products' local count
  idx,       \* idx[p]: how many of sample_products seed_products has inserted
  nCreated,  \* successful inserts of create_product so far
  response   \* the response in flight, NoResponse when there is none

vars == <<db, product, inc, pc, count, idx, nCreated, response>>

\* no response is in flight
NoResponse ==
  [op |-> "none", by |-> 0, req |-> <<>>, ok |-> TRUE, status |-> 0,
   detail |-> "", body |-> <<>>]

\* the response of handler op of process p to request req; ok records whether
\* the store answered the calls the handler made
Reply(op, p, req, ok, status, detail, body) ==
  [op |-> op, by |-> p, req |-> req, ok |-> ok, status |-> status,
   detail |-> detail, body |-> body]

\* the state when process 1 is about to start against an empty store
Init ==
  /\ db \in [Procs -> {"None", "Handle"}]
  /\ db[2] = "None"
  /\ product = <<>>
  /\ inc = 9
  /\ pc = [p \in Procs |-> IF p = 1 THEN "start" ELSE "off"]
  /\ count = [p \in Procs |-> 0]
  /\ idx = [p \in Procs |-> 0]
  /\ nCreated = 0
  /\ response = NoResponse

\* two processes of one deployment start together against an empty store
InitConc ==
  /\ db = [p \in Procs |-> "Handle"]
  /\ product = <<>>
  /\ inc = 9
  /\ pc = [p \in Procs |-> "start"]
  /\ count = [p \in Procs |-> 0]
  /\ idx = [p \in Procs |-> 0]
  /\ nCreated = 0
  /\ response = NoResponse

----------------------------------------------------------------------------
(* create_document (database module) *)

\* create_document("product", data): inserts data, the store assigning the id
create_document(data) ==
  /\ product' = Append(product, InsertedDoc(data, inc))
  /\ inc' = inc + 1

----------------------------------------------------------------------------
(* Startup: seed_products *)

\* except Exception: pass
seed_except(p) == pc' = [pc EXCEPT ![p] = "serving"]

seed_if_any(n) == TRUE

\* if count == 0
seed_if(n) == n = 0

\* if db is None: return; count = db["product"].count_documents({}); if count == 0
seed_count(p, ok) ==
  /\ pc[p] = "start"
  /\ IF db[p] = "None"
     THEN /\ pc' = [pc EXCEPT ![p] = "serving"]
          /\ UNCHANGED count
     ELSE IF ok
     THEN /\ count' = [count EXCEPT ![p] = count_documents(product)]
          /\ pc' = [pc EXCEPT ![p] =
                      IF seed_if(count_documents(product)) THEN "seeding"
                      ELSE "serving"]
     ELSE /\ seed_except(p)
          /\ UNCHANGED count
  /\ UNCHANGED <<db, product, inc, idx, nCreated, response>>

\* for p in sample_products: create_document("product", p)
seed_insert(p, ok) ==
  /\ pc[p] = "seeding"
  /\ IF ok
     THEN /\ create_document(sample_products[idx[p] + 1])
          /\ idx' = [idx EXCEPT ![p] = idx[p] + 1]
          /\ pc' = [pc EXCEPT ![p] =
                      IF idx[p] + 1 = Len(sample_products) THEN "serving"
                      ELSE "seeding"]
     ELSE /\ seed_except(p)
          /\ UNCHANGED <<product, inc, idx>>
  /\ UNCHANGED <<db, count, nCreated, response>>

\* the process exits and starts again, with the configuration of the moment
Restart(p) ==
  /\ pc[p] = "serving"
  /\ response = NoResponse
  /\ \E h \in {"None", "Handle"} : db' = [db EXCEPT ![p] = h]
  /\ pc' = [pc EXCEPT ![p] = "start"]
  /\ count' = [count EXCEPT ![p] = 0]
  /\ idx' = [idx EXCEPT ![p] = 0]
  /\ UNCHANGED <<product, inc, nCreated, response>>

----------------------------------------------------------------------------
(* Requests the model sends *)

Mug == <<77, 117, 103>>
Tee == <<84, 101, 101>>
mug == <<109, 117, 103>>
Home == <<72, 111, 109, 101>>
Fashion == <<70, 97, 115, 104, 105, 111, 110>>
fashion == <<102, 97, 115, 104, 105, 111, 110>>
price_asc == <<112, 114, 105, 99, 101, 95, 97, 115, 99>>
price_desc == <<112, 114, 105, 99, 101, 95, 100, 101, 115, 99>>
rating_desc == <<114, 97, 116, 105, 110, 103, 95, 100, 101, 115, 99>>
newest == <<110, 101, 119, 101, 115, 116>>

\* {"title": "Mug", "price": 5.0, "category": "Home"}
MugBody ==
  [title |-> Str(Mug), description |-> Missing, price |-> Float(500),
   category |-> Str(Home), in_stock |-> Missing, image |-> Missing,
   rating |-> Missing]

\* bodies ProductCreate accepts: the Mug; a Tee with category "" that ties with
\* the Mug in price and rating; a product with title "" and a null rating
ValidBodies ==
  {MugBody,
   [MugBody EXCEPT !.title = Str(Tee), !.description = Str(mug),
                   !.category = Str(<<>>), !.in_stock = Bool(FALSE),
                   !.rating = Float(450)],
   [MugBody EXCEPT !.title = Str(<<>>), !.price = Float(0), !.rating = NoneV,
                   !.description = NoneV]}

\* bodies ProductCreate rejects
InvalidBodies ==
  {[MugBody EXCEPT !.price = Float(-100)],
   [MugBody EXCEPT !.rating = Float(510)],
   [MugBody EXCEPT !.rating = Float(-1)],
   [MugBody EXCEPT !.title = Missing],
   [MugBody EXCEPT !.category = NoneV],
   [MugBody EXCEPT !.price = Missing]}

Bodies == ValidBodies \cup InvalidBodies

Zeros22 == [i \in 1..22 |-> 48]

\* "...09", "...0a", "...0A", "...ff", "...0g" and a string of 23 digits
ProductIds ==
  {Zeros22 \o <<48, 57>>, Zeros22 \o <<48, 97>>, Zeros22 \o <<48, 65>>,
   Zeros22 \o <<102, 102>>, Zeros22 \o <<48, 103>>, Zeros22 \o <<48>>}

ListRequests ==
  [q : {NoneV, Str(mug)},
   category : {NoneV, Str(Fashion), Str(fashion)},
   limit : {1, 2, 100},
   sort : {NoneV, Str(price_asc), Str(price_desc), Str(rating_desc), Str(newest)}]
  \cup [q : {NoneV}, category : {NoneV}, limit : {0, 101}, sort : {NoneV}]

\* str(e) of a driver error: a short message and one of 60 characters
ErrorMessages == {<<116, 105, 109, 101, 111, 117, 116>>, [i \in 1..60 |-> 120]}

----------------------------------------------------------------------------
(* Responses *)

Result(status, detail, body) == [status |-> status, detail |-> detail, body |-> body]

\* FastAPI's answer to a request its declared parameters reject
ValidationError == Result(422, "validation error", <<>>)

\* an exception no handler catches
InternalServerError == Result(500, "Internal Server Error", <<>>)

HTTPException(status_code, detail) == Result(status_code, detail, <<>>)

\* response_model=List[ProductOut] (a single ProductOut is a list of one here)
Respond(docs) ==
  IF \A i \in 1..Len(docs) : ProductOutValid(docs[i])
  THEN Result(200, "", [i \in 1..Len(docs) |-> ProductOut(docs[i])])
  ELSE InternalServerError

----------------------------------------------------------------------------
(* GET / *)

root(p) ==
  /\ pc[p] = "serving"
  /\ response = NoResponse
  /\ response' = Reply("root", p, <<>>, TRUE, 200, "",
                       <<[message |-> "E-Commerce Template API"]>>)
  /\ UNCHANGED <<db, product, inc, pc, count, idx, nCreated>>

----------------------------------------------------------------------------
(* GET /api/products *)

\* limit: int = Query(default=50, ge=1, le=100)
LimitValid(n) == n >= 1 /\ n <= 100

\* the filter document list_products builds
filter_doc(q, category) ==
  [k \in (IF Truthy(q) THEN {"$or"} ELSE {})
         \cup (IF Truthy(category) THEN {"category"} ELSE {}) |->
     IF k = "$or"
     THEN <<[field |-> "title", regex |-> q.v, options |-> "i"],
            [field |-> "description", regex |-> q.v, options |-> "i"]>>
     ELSE category]

\* the cursor after the sort parameter is applied: every order it may have
apply_sort(cursor, s) ==
  CASE s = Str(price_asc) -> sort(cursor, "price", 1)
    [] s = Str(price_desc) -> sort(cursor, "price", -1)
    [] s = Str(rating_desc) -> sort(cursor, "rating", -1)
    [] OTHER -> {cursor}

\* sort, then limit
sort_limit_swapped(cursor, s, n) ==
  {limit_cursor(c, n) : c \in apply_sort(limit_cursor(cursor, n), s)}

sort_limit(cursor, s, n) == {limit_cursor(c, n) : c \in apply_sort(cursor, s)}

list_products_no_guard(h, coll, req, ok) ==
  IF ~LimitValid(req.limit) THEN {ValidationError}
  ELSE IF ~ok THEN {InternalServerError}
  ELSE {Respond([i \in 1..Len(c) |-> serialize_doc(c[i])]) :
          c \in sort_limit(find(coll, filter_doc(req.q, req.category)),
                           req.sort, req.limit)}

\* the responses list_products may give
list_products_result(h, coll, req, ok) ==
  IF ~LimitValid(req.limit) THEN {ValidationError}
  ELSE IF h = "None" THEN {Result(200, "", <<>>)}
  ELSE IF ~ok THEN {InternalServerError}
  ELSE {Respond([i \in 1..Len(c) |-> serialize_doc(c[i])]) :
          c \in sort_limit(find(coll, filter_doc(req.q, req.category)),
                           req.sort, req.limit)}

list_products(p, req, ok) ==
  /\ pc[p] = "serving"
  /\ response = NoResponse
  /\ \E r \in list_products_result(db[p], product, req, ok) :
       response' = Reply("list_products", p, req, ok, r.status, r.detail, r.body)
  /\ UNCHANGED <<db, product, inc, pc, count, idx, nCreated>>

----------------------------------------------------------------------------
(* GET /api/products/{product_id} *)

get_product_parse_first(h, coll, product_id, ok) ==
  IF ~ObjectIdIsValid(product_id)
  THEN HTTPException(400, "Invalid product id")
  ELSE IF h = "None" THEN HTTPException(404, "Not found")
  ELSE IF ~ok THEN InternalServerError
  ELSE LET doc == find_one(coll, ObjectIdFromStr(product_id))
       IN IF DOMAIN doc = {} THEN HTTPException(404, "Product not found")
          ELSE Respond(<<serialize_doc(doc)>>)

get_product_result(h, coll, product_id, ok) ==
  IF h = "None" THEN HTTPException(404, "Not found")
  ELSE IF ~ObjectIdIsValid(product_id)
  THEN HTTPException(400, "Invalid product id")
  ELSE IF ~ok THEN InternalServerError
  ELSE LET doc == find_one(coll, ObjectIdFromStr(product_id))
       IN IF DOMAIN doc = {} THEN HTTPException(404, "Product not found")
          ELSE Respond(<<serialize_doc(doc)>>)

get_product(p, product_id, ok) ==
  /\ pc[p] = "serving"
  /\ response = NoResponse
  /\ LET r == get_product_result(db[p], product, product_id, ok)
     IN response' = Reply("get_product", p, [product_id |-> product_id], ok,
                          r.status, r.detail, r.body)
  /\ UNCHANGED <<db, product, inc, pc, count, idx, nCreated>>

----------------------------------------------------------------------------
(* GET /api/categories *)

categories_unfiltered(h, coll, ok) ==
  IF h = "None" THEN Result(200, "", <<>>)
  ELSE IF ~ok THEN InternalServerError
  ELSE LET cats == distinct(coll, "category")
           names == sorted({c.v : c \in cats})
       IN Result(200, "", [i \in 1..Len(names) |-> Str(names[i])])

categories_result(h, coll, ok) ==
  IF h = "None" THEN Result(200, "", <<>>)
  ELSE IF ~ok THEN InternalServerError
  ELSE LET cats == distinct(coll, "category")
           names == sorted({c.v : c \in {x \in cats : Truthy(x)}})
       IN Result(200, "", [i \in 1..Len(names) |-> Str(names[i])])

categories(p, ok) ==
  /\ pc[p] = "serving"
  /\ response = NoResponse
  /\ LET r == categories_result(db[p], product, ok)
     IN response' = Reply("categories", p, <<>>, ok, r.status, r.detail,
                          r.body)
  /\ UNCHANGED <<db, product, inc, pc, count, idx, nCreated>>

----------------------------------------------------------------------------
(* POST /api/products *)

\* how far create_product gets: "invalid" (the body is rejected before the
\* handler runs), "unavailable" (db is None), "raise" (create_document raises)
\* or "insert"
create_product_unchecked(h, body, okInsert) ==
  IF h = "None" THEN "unavailable"
  ELSE IF ~okInsert THEN "raise"
  ELSE "insert"

create_product_outcome(h, body, okInsert) ==
  IF ~ProductCreateValid(body) THEN "invalid"
  ELSE IF h = "None" THEN "unavailable"
  ELSE IF ~okInsert THEN "raise"
  ELSE "insert"

create_product(p, body, okInsert, okFind) ==
  /\ pc[p] = "serving"
  /\ response = NoResponse
  /\ LET outcome == create_product_outcome(db[p], body, okInsert)
         req == [payload |-> body]
     IN IF outcome = "insert"
        THEN /\ nCreated < MaxCreates
             /\ create_document(ProductCreate(body))
             /\ nCreated' = nCreated + 1
             /\ LET product_id == StrOf(Oid(NewObjectId(inc))).v
                    doc == find_one(product', ObjectIdFromStr(product_id))
                    r == IF okFind THEN Respond(<<serialize_doc(doc)>>)
                         ELSE InternalServerError
                IN response' = Reply("create_product", p, req, okFind,
                                     r.status, r.detail, r.body)
        ELSE /\ LET r == CASE outcome = "invalid" -> ValidationError
                           [] outcome = "unavailable" ->
                                HTTPException(500, "Database not available")
                           [] OTHER -> InternalServerError
                IN response' = Reply("create_product", p, req, okInsert,
                                     r.status, r.detail, r.body)
             /\ UNCHANGED <<product, inc, nCreated>>
  /\ UNCHANGED <<db, pc, count, idx>>

----------------------------------------------------------------------------
(* GET /test *)

\* a value of the report's "database" key: a fixed text, then str(e)[:50]
\* where the code appends it.  "(ok)" stands for the check mark, "(x)" for the
\* cross mark and "(warn)" for the warning sign of the source.
Status(text) == [text |-> text, err |-> <<>>]

test_database_result(h, coll, ok, others, msg, urlSet, nameSet) ==
  LET r0 == [backend |-> "(ok) Running",
             database |-> Status("(x) Not Available"),
             database_url |-> "None",
             database_name |-> "None",
             connection_status |-> "Not Connected",
             collections |-> <<>>]
      r1 == IF h # "None"
            THEN LET a == [r0 EXCEPT !.database = Status("(ok) Available"),
                                     !.database_url = "(ok) Configured",
                                     !.database_name = "db.name",
                                     !.connection_status = "Connected"]
                 IN IF ok
                    THEN [a EXCEPT
                            !.collections =
                               Take(list_collection_names(coll, others), 10),
                            !.database = Status("(ok) Connected & Working")]
                    ELSE [a EXCEPT
                            !.database =
                               [text |-> "(warn)  Connected but Error: ",
                                err |-> Take(msg, 50)]]
            ELSE [r0 EXCEPT
                    !.database = Status("(warn)  Available but not initialized")]
      r2 == [r1 EXCEPT
               !.database_url = IF urlSet THEN "(ok) Set" ELSE "(x) Not Set",
               !.database_name = IF nameSet THEN "(ok) Set" ELSE "(x) Not Set"]
  IN Result(200, "", <<r2>>)

test_database(p, ok, others, msg, urlSet, nameSet) ==
  /\ pc[p] = "serving"
  /\ response = NoResponse
  /\ LET r == test_database_result(db[p], product, ok, others, msg, urlSet,
                                   nameSet)
     IN response' = Reply("test_database", p, [others |-> others], ok,
                          r.status, r.detail, r.body)
  /\ UNCHANGED <<db, product, inc, pc, count, idx, nCreated>>

----------------------------------------------------------------------------
(* The client *)

\* the response in flight reaches the client; the next request may follow
Receive ==
  /\ response # NoResponse
  /\ response' = NoResponse
  /\ UNCHANGED <<db, product, inc, pc, count, idx, nCreated>>

----------------------------------------------------------------------------
(* Specifications *)

\* one process at a time: startup, then requests, then a restart
Next ==
  \/ \E p \in Procs, ok \in BOOLEAN : seed_count(p, ok)
  \/ \E p \in Procs, ok \in BOOLEAN : seed_insert(p, ok)
  \/ \E p \in Procs : Restart(p)
  \/ \E p \in Procs : root(p)
  \/ \E p \in Procs, req \in ListRequests, ok \in BOOLEAN : list_products(p, req, ok)
  \/ \E p \in Procs, product_id \in ProductIds, ok \in BOOLEAN :
       get_product(p, product_id, ok)
  \/ \E p \in Procs, ok \in BOOLEAN : categories(p, ok)
  \/ \E p \in Procs, body \in Bodies, okInsert \in BOOLEAN, okFind \in BOOLEAN :
       create_product(p, body, okInsert, okFind)
  \/ \E p \in Procs, ok \in BOOLEAN, urlSet \in BOOLEAN, nameSet \in BOOLEAN,
        others \in {0, MaxOtherColls - 2, MaxOtherColls}, msg \in ErrorMessages :
       test_database(p, ok, others, msg, urlSet, nameSet)
  \/ Receive

Spec == Init /\ [][Next]_vars

\* a create request served while startups are in progress
ConcCreate(p, body) ==
  /\ nCreated < MaxConcCreates
  /\ create_product(p, body, TRUE, TRUE)

\* two processes start together; startups and creates interleave
NextConc ==
  \/ \E p \in Procs, ok \in BOOLEAN : seed_count(p, ok)
  \/ \E p \in Procs, ok \in BOOLEAN : seed_insert(p, ok)
  \/ \E p \in Procs : ConcCreate(p, MugBody)
  \/ Receive

SpecConc == InitConc /\ [][NextConc]_vars

----------------------------------------------------------------------------
(* Vocabulary of the properties *)

\* a step that serves a request of handler op
Served(op) == response = NoResponse /\ response'.op = op

\* the fields of a stored or returned product other than its id
Fields(doc) == [k \in ProductCreateFields |-> doc[k]]

\* the external form of a stored document: its fields, and its id as text
External(doc) ==
  [k \in ProductOutFields |->
     IF k = "id" THEN Str(ObjectIdStr(doc["_id"].v)) ELSE doc[k]]

\* the defaults of the optional Product fields
Defaults ==
  [description |-> NoneV, in_stock |-> Bool(TRUE), image |-> NoneV,
   rating |-> Float(450)]

\* a request body with each absent optional field at its default
WithDefaults(body) ==
  [k \in ProductCreateFields |->
     IF body[k].t = "missing" /\ k \in DOMAIN Defaults THEN Defaults[k]
     ELSE body[k]]

\* a required text field that is missing or empty
NoText(x) == x.t # "str" \/ Len(x.v) = 0

\* a body the data model forbids: price < 0, rating outside [0, 5], or a
\* required text field missing or empty
Forbidden(body) ==
  \/ body.price.t = "float" /\ body.price.v < 0
  \/ body.rating.t = "float" /\ (body.rating.v < 0 \/ body.rating.v > 500)
  \/ NoText(body.title)
  \/ NoText(body.category)

----------------------------------------------------------------------------
(* C1 *)

\* C1: create product rejects with a validation error every body in which
\* price < 0, or rating is outside [0, 5], or title or category is missing or
\* empty, and then adds no record to the store (stated for a process that
\* holds a store handle and a store that answers).
C1_CreateRejectsForbidden ==
  [][/\ Served("create_product")
     /\ db[response'.by] = "Handle"
     /\ response'.ok
     /\ Forbidden(response'.req.payload)
     => response'.status = 422 /\ product' = product]_vars

----------------------------------------------------------------------------
(* C2 *)

\* the stored documents whose id is the ObjectId that product_id denotes
WithId(product_id) ==
  {i \in 1..Len(product) : product[i]["_id"].v = ObjectIdFromStr(product_id)}

----------------------------------------------------------------------------
(* C3 *)

\* C3: after a successful create, get-by-id on the returned id yields a record
\* whose fields are those of the payload (absent optional fields at their
\* defaults) plus the assigned id, which no record stored before the create has.
C3_CreateThenGet ==
  [][Served("create_product") /\ response'.status = 200 =>
       LET id == response'.body[1]["id"].v
           got == get_product_result(db'[response'.by], product', id, TRUE)
       IN /\ got.status = 200
          /\ Len(got.body) = 1
          /\ Fields(got.body[1]) = WithDefaults(response'.req.payload)
          /\ got.body[1]["id"] = Str(id)
          /\ \A i \in 1..Len(product) : ObjectIdStr(product[i]["_id"].v) # id]_vars

\* the Mug was created in a store that already held records
C3_Witness ==
  /\ response.op = "create_product"
  /\ response.status = 200
  /\ response.req.payload = MugBody
  /\ Len(product) > 1

----------------------------------------------------------------------------
(* C4 *)

\* C4: when the serving process has no store handle, a list-products request
\* (with a limit in 1..100) and a list-categories request return an empty
\* sequence with status 200, a create request (with a body that passes
\* validation) fails with 500 "Database not available", and none of the three
\* changes the collection.
C4_Unavailable ==
  [][response = NoResponse /\ response' # NoResponse /\ db[response'.by] = "None" =>
       /\ response'.op = "list_products" /\ LimitValid(response'.req.limit)
            => response'.status = 200 /\ response'.body = <<>>
       /\ response'.op = "categories"
            => response'.status = 200 /\ response'.body = <<>>
       /\ response'.op = "create_product"
            => /\ response'.status \in {422, 500}
               /\ ProductCreateValid(response'.req.payload)
                    => /\ response'.status = 500
                       /\ response'.detail = "Database not available"
       /\ product' = product]_vars

\* products are stored, and a process without a store handle lists none
C4_Witness ==
  /\ response.op = "list_products"
  /\ db[response.by] = "None"
  /\ Len(product) > 0
  /\ response.status = 200
  /\ response.body = <<>>

----------------------------------------------------------------------------
(* C5 *)

\* C5: a startup that finds the store reachable and the collection empty and
\* meets no failure leaves the collection holding exactly the six sample
\* products; a startup without a store handle, or one that finds a product,
\* inserts nothing; a failure ends the startup without crashing the process,
\* and the startup inserts nothing afterwards.
C5_Seeding ==
  [][\A p \in Procs :
       /\ pc[p] = "seeding" /\ pc'[p] = "serving" /\ idx'[p] = Len(sample_products)
            => [i \in 1..Len(product') |-> Fields(product'[i])] = sample_products
       /\ pc[p] = "start" /\ pc'[p] # "start" /\ (db[p] = "None" \/ Len(product) > 0)
            => pc'[p] = "serving" /\ product' = product
       /\ pc[p] = "seeding" /\ pc'[p] = "seeding"
            => product' = Append(product, product'[Len(product')])
               /\ Fields(product'[Len(product')]) = sample_products[idx'[p]]
       /\ pc'[p] # "crashed"
       /\ pc[p] = "serving" /\ pc'[p] = "serving" /\ product' # product
            => response'.op = "create_product" /\ response = NoResponse]_vars

\* a startup has just seeded an empty store
C5_Witness ==
  /\ pc[1] = "serving"
  /\ idx[1] = Len(sample_products)
  /\ [i \in 1..Len(product) |-> Fields(product[i])] = sample_products

----------------------------------------------------------------------------
(* C6 *)

SixKeys ==
  {"backend", "database", "database_url", "database_name", "connection_status",
   "collections"}

\* texts of the "database" key that call the store available
SaysAvailable(d) ==
  d.text \in {"(ok) Available", "(ok) Connected & Working",
              "(warn)  Available but not initialized"}

\* the text of the "database" key that calls the store not available
SaysNotAvailable(d) == d.text = "(x) Not Available"

\* C6: GET /test always answers 200 with the six fixed keys and at most 10
\* collection names, and its "database" value calls the store available only
\* when the store is reachable and not available when it is not.
C6_Diagnostics ==
  response.op = "test_database" =>
    /\ response.status = 200
    /\ DOMAIN response.body[1] = SixKeys
    /\ Len(response.body[1].collections) <= 10
    /\ SaysAvailable(response.body[1].database)
         => db[response.by] # "None" /\ response.ok
    /\ db[response.by] = "None" => SaysNotAvailable(response.body[1].database)

----------------------------------------------------------------------------
(* C7 *)

\* C7: list categories returns exactly the distinct non-empty category values
\* of the stored products, in strictly ascending lexicographic order (so with no
\* duplicate), and never the empty string.
C7_Categories ==
  response.op = "categories" /\ response.ok /\ db[response.by] # "None" =>
    /\ response.status = 200
    /\ \A i \in 1..Len(response.body) : \A j \in 1..Len(response.body) :
         i < j => LexLess(response.body[i].v, response.body[j].v)
    /\ {response.body[i] : i \in 1..Len(response.body)}
         = {product[i]["category"] : i \in 1..Len(product)} \ {Str(<<>>)}

\* the store holds a product with category "" and two products of one category
C7_Witness ==
  /\ response.op = "categories"
  /\ response.status = 200
  /\ Len(response.body) >= 2
  /\ \E i \in 1..Len(product) : product[i]["category"] = Str(<<>>)
  /\ \E i \in 1..Len(product) : \E j \in 1..Len(product) :
       i # j /\ product[i]["category"] = product[j]["category"]

----------------------------------------------------------------------------
(* C8 *)

\* the stored documents a list request selects: category equal to the one asked
\* for, and q (when given) found in the title or the description
Selected(req) ==
  {i \in 1..Len(product) :
     /\ req.category # NoneV => product[i]["category"] = req.category
     /\ req.q # NoneV =>
          \/ RegexMatchI(req.q.v, product[i]["title"])
          \/ RegexMatchI(req.q.v, product[i]["description"])}

\* the order a sort value asks of two values of its key
InOrder(s, a, b) ==
  CASE s = Str(price_asc) -> ~BsonLess(b["price"], a["price"])
    [] s = Str(price_desc) -> ~BsonLess(a["price"], b["price"])
    [] s = Str(rating_desc) -> ~BsonLess(a["rating"], b["rating"])
    [] OTHER -> TRUE

Recognized(s) == s \in {Str(price_asc), Str(price_desc), Str(rating_desc)}

\* the selected documents in store order
RECURSIVE InStoreOrder(_)
InStoreOrder(S) ==
  IF S = {} THEN <<>>
  ELSE LET m == CHOOSE i \in S : \A j \in S : i <= j
       IN <<External(product[m])>> \o InStoreOrder(S \ {m})

----------------------------------------------------------------------------
(* C9 *)

ReadOps == {"root", "list_products", "get_product", "categories", "test_database"}

\* C9: every step leaves the stored records as they are, in place, with their
\* ids and fields; a read request (list products, get product, list categories,
\* root, /test) leaves the collection unchanged; a create that answers 200 adds
\* exactly one record, the payload; a create with a rejected body or by a
\* process without a store handle adds none.
C9_Frame ==
  [][/\ Len(product) <= Len(product')
     /\ SubSeq(product', 1, Len(product)) = product
     /\ response = NoResponse /\ response'.op \in ReadOps => product' = product
     /\ Served("create_product") =>
          /\ response'.status = 200 =>
               /\ Len(product') = Len(product) + 1
               /\ Fields(product'[Len(product')]) = WithDefaults(response'.req.payload)
          /\ (~ProductCreateValid(response'.req.payload)
                \/ db[response'.by] = "None") =>
               /\ response'.status # 200
               /\ product' = product]_vars

\* a second product has been created in a seeded store
C9_Witness ==
  /\ response.op = "create_product"
  /\ response.status = 200
  /\ Len(product) = Len(sample_products) + 2

----------------------------------------------------------------------------
(* C10 *)

\* C10: however process starts interleave with each other and with create
\* requests, no sample product is stored twice, and a startup that found a
\* product inserts nothing.
C10_SeedOnce ==
  /\ \A k \in 1..Len(sample_products) :
       Cardinality({i \in 1..Len(product) : Fields(product[i]) = sample_products[k]})
         <= 1
  /\ \A p \in Procs : pc[p] = "seeding" => count[p] = 0

====
